---- MODULE Spec2Model ----
(***************************************************************************)
(* Model of mephisto/internal/kernels.hpp: the ReduceKernel (per-lane      *)
(* accumulation through the user function, block barrier, in-block tree    *)
(* fold, store of the block result) and the UniversalKernel (map adapter). *)
(*                                                                         *)
(* One launch is modelled: gridDimension blocks of blockThreadExtent lanes *)
(* run the kernel body, interleaved lane by lane, separated by the block   *)
(* barrier.  The IteratorCpu class, the user function handed to the kernel *)
(* and the host-side combination of the block partials live outside the    *)
(* files at hand; they are modelled from the design document.              *)
(*                                                                         *)
(* TBlockSize is 256 in the source.  The model draws it from               *)
(* 1..MaxBlockSize so that the lanes of a block can be interleaved         *)
(* exhaustively; every expression that uses it is the source's.            *)
(***************************************************************************)
EXTENDS Integers, Sequences, FiniteSets, TLC

\* ---- bounds of the model ------------------------------------------------
MaxBlockSize == 3
MaxGrid == 2
MaxN == 4
\* lanes of one launch that are interleaved
MaxLanes == 4

\* content of a shared or destination slot nobody has written yet
Uninit == -1
\* values a read of a slot nobody has written may return
Garbage == {0, 7}

VARIABLES
    kernel,              \* "reduce" (ReduceKernel) or "map" (UniversalKernel)
    TBlockSize,          \* ReduceKernel::TBlockSize
    blockThreadExtent,   \* lanes actually running in one block (1 on the
                         \* sequential target)
    gridDimension,       \* number of blocks of the launch
    n,                   \* problem size
    block_index,         \* the block_index argument of the launch
    source,              \* the source buffer, index 0..n-1
    fn,                  \* the user's combining function: "add" or "max"
    sdata,               \* sdata[b][i]: shared memory of block b
    destination,         \* the block-partial buffer
    pc,                  \* position of each lane in the kernel body
    it,                  \* the lane's iterator position
    currentBlockSize,    \* loop variable of the tree fold, per lane
    currentBlockSizeUp,  \* loop variable of the tree fold, per lane
    visits,              \* visits[i]: how often index i was passed to func
    wr,                  \* wr[b][i]: lanes that wrote sdata[b][i] since the last barrier
    rd,                  \* rd[b][i]: lanes that read sdata[b][i] since the last barrier
    combines,            \* the <<block, lane, span>> triples whose fold guard held
    writers,             \* writers[d]: lanes <<b, t>> that wrote destination[d]
    mapCalls,            \* mapCalls[l]: invocations of the wrapped function by lane l
    walk,                \* walk[l]: the indices lane l passed to func, in order
    spans,               \* spans[l]: currentBlockSizeUp of each round lane l ran
    barriers,            \* barriers[l]: barriers lane l has crossed
    host,                \* "running" until the launch is complete, then "combined"
    result               \* value returned by reduce

vars == <<kernel, TBlockSize, blockThreadExtent, gridDimension, n, block_index,
          source, fn, sdata, destination, pc, it, currentBlockSize,
          currentBlockSizeUp, visits, wr, rd, combines, writers, mapCalls,
          walk, spans, barriers, host, result>>

config == <<kernel, TBlockSize, blockThreadExtent, gridDimension, n,
            block_index, source, fn>>

\* ---- helpers ------------------------------------------------------------
Blocks == 0 .. (gridDimension - 1)
Threads == 0 .. (blockThreadExtent - 1)
Lanes == Blocks \X Threads
Slots == 0 .. (TBlockSize - 1)

blockIndex(l) == l[1]
threadIndex(l) == l[2]

\* alpaka::idx::getIdx<Grid, Threads>: block index times the lanes per block
\* plus the lane's index in its block
linearizedIndex(l) == blockIndex(l) * blockThreadExtent + threadIndex(l)

gridSizeNoBlock == gridDimension

\* the stride handed to the iterator
gridSize == gridDimension * TBlockSize

Max(a, b) == IF a >= b THEN a ELSE b

Combine(f, a, b) == IF f = "add" THEN a + b ELSE Max(a, b)

Identity(f) == 0

\* a read of slot i: a slot nobody wrote yields an arbitrary value g
ReadSlot(sd, i, g) == IF sd[i] = Uninit THEN g ELSE sd[i]

\* IteratorCpu: position, stride, exclusive bound
AtEnd(pos) == pos >= n
Advance(pos) == pos + gridSize

\* the user function func(blockIndex, idx, sdata, elem): folds the element
\* into the accumulator slot idx, seeding it with the lane's first element
Func(sd, idx, first, elem, g) ==
    [sd EXCEPT ![idx] = IF first THEN elem
                        ELSE Combine(fn, ReadSlot(sd, idx, g), elem)]

\* sequential left fold of f over source[0..k-1]
RECURSIVE SeqFold(_, _, _)
SeqFold(f, src, k) ==
    IF k = 0 THEN Identity(f) ELSE Combine(f, SeqFold(f, src, k - 1), src[k - 1])

\* host-side combination of the slots 0..k-1 of the block-partial buffer,
\* skipping the slots no block wrote
RECURSIVE FoldPartials(_, _, _)
FoldPartials(f, dst, k) ==
    IF k = 0 THEN Identity(f)
    ELSE IF dst[k - 1] = Uninit THEN FoldPartials(f, dst, k - 1)
    ELSE Combine(f, FoldPartials(f, dst, k - 1), dst[k - 1])

Iota == [i \in 0 .. (MaxN - 1) |-> i + 1]
Ones == [i \in 0 .. (MaxN - 1) |-> 1]

\* ---- initial state: one launch -------------------------------------------
Init ==
    /\ kernel \in {"reduce", "map"}
    /\ TBlockSize \in 1 .. MaxBlockSize
    /\ blockThreadExtent \in 1 .. TBlockSize
    /\ gridDimension \in 1 .. MaxGrid
    /\ gridDimension * blockThreadExtent <= MaxLanes
    /\ n \in 0 .. MaxN
    /\ block_index \in 0 .. (gridDimension - 1)
    /\ source \in IF kernel = "reduce" THEN {Iota, Ones} ELSE {Iota}
    /\ fn \in IF kernel = "reduce" /\ source = Iota THEN {"add", "max"} ELSE {"add"}
    /\ sdata = [b \in Blocks |-> [i \in Slots |-> Uninit]]
    /\ destination = [d \in Blocks |-> Uninit]
    /\ pc = [l \in Lanes |-> IF kernel = "reduce" THEN "walk" ELSE "map"]
    /\ it = [l \in Lanes |-> linearizedIndex(l)]
    /\ currentBlockSize = [l \in Lanes |-> TBlockSize]
    /\ currentBlockSizeUp = [l \in Lanes |-> (TBlockSize + 1) \div 2]
    /\ visits = [i \in 0 .. (MaxN - 1) |-> 0]
    /\ wr = [b \in Blocks |-> [i \in Slots |-> {}]]
    /\ rd = [b \in Blocks |-> [i \in Slots |-> {}]]
    /\ combines = {}
    /\ writers = [d \in Blocks |-> {}]
    /\ mapCalls = [l \in Lanes |-> 0]
    /\ walk = [l \in Lanes |-> << >>]
    /\ spans = [l \in Lanes |-> << >>]
    /\ barriers = [l \in Lanes |-> 0]
    /\ host = "running"
    /\ result = Uninit

\* ---- ReduceKernel::operator() ---------------------------------------------

FoldCondNoPartnerBound(l) ==
    /\ threadIndex(l) < currentBlockSizeUp[l]
    /\ (threadIndex(l) + currentBlockSizeUp[l]) < TBlockSize
    /\ threadIndex(l) < n

\* the guard of one round of the tree fold
FoldCond(l) ==
    /\ threadIndex(l) < currentBlockSizeUp[l]
    /\ (threadIndex(l) + currentBlockSizeUp[l]) < TBlockSize
    /\ (blockIndex(l) * TBlockSize + threadIndex(l) + currentBlockSizeUp[l]) < n
    /\ threadIndex(l) < n

StoreCondNoBound(l) == threadIndex(l) = 0

\* the guard of the store of the block result
StoreCond(l) == threadIndex(l) = 0 /\ threadIndex(l) < n

\* the slot of the block-partial buffer a lane stores into
StoreSlot(l) == block_index

\* while (it < it.end()) func(blockIndex, 0, sdata.data, &(*it++)): one turn
\* (the call of func is taken as one step of the lane)
Accumulate(l) ==
    /\ kernel = "reduce"
    /\ pc[l] = "walk"
    /\ ~AtEnd(it[l])
    /\ \E g \in Garbage :
         sdata' = [sdata EXCEPT ![blockIndex(l)] =
                     Func(@, 0, it[l] = linearizedIndex(l), source[it[l]], g)]
    /\ visits' = [visits EXCEPT ![it[l]] = @ + 1]
    /\ it' = [it EXCEPT ![l] = Advance(@)]
    /\ wr' = [wr EXCEPT ![blockIndex(l)][0] = @ \cup {threadIndex(l)}]
    /\ rd' = IF it[l] = linearizedIndex(l) THEN rd
             ELSE [rd EXCEPT ![blockIndex(l)][0] = @ \cup {threadIndex(l)}]
    /\ walk' = [walk EXCEPT ![l] = Append(@, it[l])]
    /\ UNCHANGED <<config, destination, pc, currentBlockSize,
                   currentBlockSizeUp, combines, writers, mapCalls, spans,
                   barriers, host, result>>

WalkEndEarlyReturn(l) ==
    /\ kernel = "reduce"
    /\ pc[l] = "walk"
    /\ AtEnd(it[l])
    /\ pc' = [pc EXCEPT ![l] = IF walk[l] = << >> THEN "done" ELSE "sync0"]
    /\ UNCHANGED <<config, sdata, destination, it, currentBlockSize,
                   currentBlockSizeUp, visits, wr, rd, combines, writers,
                   mapCalls, walk, spans, barriers, host, result>>

\* the walk is over: the lane reaches the first syncBlockThreads
WalkEnd(l) ==
    /\ kernel = "reduce"
    /\ pc[l] = "walk"
    /\ AtEnd(it[l])
    /\ pc' = [pc EXCEPT ![l] = "sync0"]
    /\ UNCHANGED <<config, sdata, destination, it, currentBlockSize,
                   currentBlockSizeUp, visits, wr, rd, combines, writers,
                   mapCalls, walk, spans, barriers, host, result>>

\* the step expression of the tree-fold loop
NextBlockSize(cbs) == cbs \div 2
NextBlockSizeUp(cbs) == (NextBlockSize(cbs) + 1) \div 2

SyncBlockThreadsNoWait(b) ==
    /\ kernel = "reduce"
    /\ b \in Blocks
    /\ \E t \in Threads : pc[<<b, t>>] \in {"sync0", "syncR"}
    /\ pc' = [l \in Lanes |->
                IF blockIndex(l) # b THEN pc[l]
                ELSE IF pc[l] = "sync0" THEN "print"
                ELSE IF pc[l] = "syncR" THEN "round" ELSE pc[l]]
    /\ currentBlockSize' = [l \in Lanes |->
                IF blockIndex(l) = b /\ pc[l] = "syncR"
                THEN NextBlockSize(currentBlockSize[l]) ELSE currentBlockSize[l]]
    /\ currentBlockSizeUp' = [l \in Lanes |->
                IF blockIndex(l) = b /\ pc[l] = "syncR"
                THEN NextBlockSizeUp(currentBlockSize[l]) ELSE currentBlockSizeUp[l]]
    /\ wr' = [wr EXCEPT ![b] = [i \in Slots |-> {}]]
    /\ rd' = [rd EXCEPT ![b] = [i \in Slots |-> {}]]
    /\ barriers' = [l \in Lanes |->
                IF blockIndex(l) = b /\ pc[l] \in {"sync0", "syncR"}
                THEN barriers[l] + 1 ELSE barriers[l]]
    /\ UNCHANGED <<config, sdata, destination, it, visits, combines, writers,
                   mapCalls, walk, spans, host, result>>

\* alpaka::block::sync::syncBlockThreads: when every lane of block b waits at
\* the barrier all of them go on; a lane that waited at the end of a round
\* takes the step of the loop
SyncBlockThreads(b) ==
    /\ kernel = "reduce"
    /\ b \in Blocks
    /\ \A t \in Threads : pc[<<b, t>>] \in {"sync0", "syncR"}
    /\ pc' = [l \in Lanes |->
                IF blockIndex(l) # b THEN pc[l]
                ELSE IF pc[l] = "sync0" THEN "print" ELSE "round"]
    /\ currentBlockSize' = [l \in Lanes |->
                IF blockIndex(l) = b /\ pc[l] = "syncR"
                THEN NextBlockSize(currentBlockSize[l]) ELSE currentBlockSize[l]]
    /\ currentBlockSizeUp' = [l \in Lanes |->
                IF blockIndex(l) = b /\ pc[l] = "syncR"
                THEN NextBlockSizeUp(currentBlockSize[l]) ELSE currentBlockSizeUp[l]]
    /\ wr' = [wr EXCEPT ![b] = [i \in Slots |-> {}]]
    /\ rd' = [rd EXCEPT ![b] = [i \in Slots |-> {}]]
    /\ barriers' = [l \in Lanes |->
                IF blockIndex(l) = b THEN barriers[l] + 1 ELSE barriers[l]]
    /\ UNCHANGED <<config, sdata, destination, it, visits, combines, writers,
                   mapCalls, walk, spans, host, result>>

\* printf("sdata: "); for (i < TBlockSize) printf("%d ", sdata[i]): the lane
\* reads every slot of its block
PrintSdata(l) ==
    /\ kernel = "reduce"
    /\ pc[l] = "print"
    /\ rd' = [rd EXCEPT ![blockIndex(l)] =
                [i \in Slots |-> rd[blockIndex(l)][i] \cup {threadIndex(l)}]]
    /\ pc' = [pc EXCEPT ![l] = "round"]
    /\ UNCHANGED <<config, sdata, destination, it, currentBlockSize,
                   currentBlockSizeUp, visits, wr, combines, writers,
                   mapCalls, walk, spans, barriers, host, result>>

\* the value a lane stores in a round whose guard holds
FoldValue(sd, t, u, g1, g2) == ReadSlot(sd, t, g1) + ReadSlot(sd, t + u, g2)

\* one round of the tree fold, up to the barrier that ends it
TreeFold(l) ==
    /\ kernel = "reduce"
    /\ pc[l] = "round"
    /\ currentBlockSize[l] > 1
    /\ IF FoldCond(l)
       THEN /\ \E g1, g2 \in Garbage :
                 sdata' = [sdata EXCEPT ![blockIndex(l)][threadIndex(l)] =
                             FoldValue(sdata[blockIndex(l)], threadIndex(l),
                                       currentBlockSizeUp[l], g1, g2)]
            /\ wr' = [wr EXCEPT ![blockIndex(l)][threadIndex(l)] =
                             @ \cup {threadIndex(l)}]
            /\ rd' = [rd EXCEPT
                        ![blockIndex(l)][threadIndex(l)] = @ \cup {threadIndex(l)},
                        ![blockIndex(l)][threadIndex(l) + currentBlockSizeUp[l]] =
                             @ \cup {threadIndex(l)}]
            /\ combines' = combines \cup
                   {<<blockIndex(l), threadIndex(l), currentBlockSizeUp[l]>>}
       ELSE UNCHANGED <<sdata, wr, rd, combines>>
    /\ pc' = [pc EXCEPT ![l] = "syncR"]
    /\ spans' = [spans EXCEPT ![l] = Append(@, currentBlockSizeUp[l])]
    /\ UNCHANGED <<config, destination, it, currentBlockSize,
                   currentBlockSizeUp, visits, writers, mapCalls, walk,
                   barriers, host, result>>

\* the loop is over: store block result to gmem
StoreResult(l) ==
    /\ kernel = "reduce"
    /\ pc[l] = "round"
    /\ ~(currentBlockSize[l] > 1)
    /\ IF StoreCond(l)
       THEN /\ \E g \in Garbage :
                 destination' = [destination EXCEPT ![StoreSlot(l)] =
                                   ReadSlot(sdata[blockIndex(l)], 0, g)]
            /\ writers' = [writers EXCEPT ![StoreSlot(l)] = @ \cup {l}]
            /\ rd' = [rd EXCEPT ![blockIndex(l)][0] = @ \cup {threadIndex(l)}]
       ELSE UNCHANGED <<destination, writers, rd>>
    /\ pc' = [pc EXCEPT ![l] = "done"]
    /\ UNCHANGED <<config, sdata, it, currentBlockSize, currentBlockSizeUp,
                   visits, wr, combines, mapCalls, walk, spans, barriers,
                   host, result>>

\* ---- UniversalKernel::operator() ------------------------------------------

InvokeFuncPerElement(calls, l) == [calls EXCEPT ![l] = @ + n]

\* _func(acc, block_index, res, A): the call of the wrapped function
InvokeFunc(calls, l) == [calls EXCEPT ![l] = @ + 1]

UniversalCall(l) ==
    /\ kernel = "map"
    /\ pc[l] = "map"
    /\ mapCalls' = InvokeFunc(mapCalls, l)
    /\ pc' = [pc EXCEPT ![l] = "done"]
    /\ UNCHANGED <<config, sdata, destination, it, currentBlockSize,
                   currentBlockSizeUp, visits, wr, rd, combines, writers,
                   walk, spans, barriers, host, result>>

\* ---- the host side ---------------------------------------------------------

LaunchComplete == \A l \in Lanes : pc[l] = "done"

\* after the launch: the block partials are folded into the result of reduce
HostCombine ==
    /\ host = "running"
    /\ LaunchComplete
    /\ host' = "combined"
    /\ result' = IF kernel = "reduce"
                 THEN FoldPartials(fn, destination, gridDimension)
                 ELSE result
    /\ UNCHANGED <<config, sdata, destination, pc, it, currentBlockSize,
                   currentBlockSizeUp, visits, wr, rd, combines, writers,
                   mapCalls, walk, spans, barriers>>

Next ==
    \/ \E l \in Lanes : Accumulate(l)
    \/ \E l \in Lanes : WalkEnd(l)
    \/ \E b \in Blocks : SyncBlockThreads(b)
    \/ \E l \in Lanes : PrintSdata(l)
    \/ \E l \in Lanes : TreeFold(l)
    \/ \E l \in Lanes : StoreResult(l)
    \/ \E l \in Lanes : UniversalCall(l)
    \/ HostCombine

Spec == Init /\ [][Next]_vars

\* the lanes of a launch are threads the target keeps running: a step that
\* is possible is eventually taken
FairSpec == Spec /\ WF_vars(Next)

\* ---- properties -------------------------------------------------------------

ReduceReturned == kernel = "reduce" /\ host = "combined"

RECURSIVE SumCalls(_, _)
SumCalls(calls, S) ==
    IF S = {} THEN 0
    ELSE LET l == CHOOSE x \in S : TRUE IN calls[l] + SumCalls(calls, S \ {l})

\* C1: for every n, every input and every combining function with identity,
\* the value reduce returns equals the sequential left fold of the function
\* over the n elements, whatever the lane count and the block size.
C1_ReduceEqualsLeftFold ==
    ReduceReturned => result = SeqFold(fn, source, n)

\* C2: the walks of the lanes of one launch partition [0, n): once the launch
\* is complete every index below n was passed to func exactly once, and at no
\* time was an index passed twice or an index >= n passed at all.
C2_WalksPartition ==
    kernel = "reduce" =>
        /\ \A i \in 0 .. (MaxN - 1) : visits[i] <= (IF i < n THEN 1 ELSE 0)
        /\ LaunchComplete => \A i \in 0 .. (n - 1) : visits[i] = 1

\* C3: with addition over the input 1..n every decomposition (block size,
\* lanes per block, number of blocks) returns the same value, the sum
\* n(n+1)/2 that the one-lane, one-block run returns.
C3_SameResultUnderEveryDecomposition ==
    (ReduceReturned /\ fn = "add" /\ source = Iota) =>
        result = (n * (n + 1)) \div 2

\* C4: whenever the fold guard of a lane holds in a round, both slots the lane
\* is about to combine have been written by a lane of the block.
C4_NoUnwrittenSlotCombined ==
    \A l \in Lanes :
        (kernel = "reduce" /\ pc[l] = "round" /\ currentBlockSize[l] > 1
           /\ FoldCond(l)) =>
            /\ sdata[blockIndex(l)][threadIndex(l)] # Uninit
            /\ sdata[blockIndex(l)][threadIndex(l) + currentBlockSizeUp[l]] # Uninit

\* C5: between two consecutive barriers of a block a shared slot has at most
\* one writing lane, and no other lane reads a slot that a lane wrote.
C5_NoRaceBetweenBarriers ==
    \A b \in Blocks : \A i \in Slots :
        /\ Cardinality(wr[b][i]) <= 1
        /\ wr[b][i] # {} => rd[b][i] \subseteq wr[b][i]

\* C6: destination[d] is written by lane 0 of block d only, and at most once.
C6_OneSlotPerBlock ==
    \A d \in Blocks :
        /\ writers[d] \subseteq {<<d, 0>>}
        /\ Cardinality(writers[d]) <= 1

\* C7: a block whose first global index blockIndex * B is >= n writes no
\* destination slot (n > 0).
C7_EmptyBlockWritesNothing ==
    \A l \in Lanes : \A d \in Blocks :
        (n > 0 /\ blockIndex(l) * TBlockSize >= n) => l \notin writers[d]

\* C8: with n = 0 func is never invoked, no shared slot is combined, no
\* destination slot is written, and reduce returns the identity.
C8_EmptyInput ==
    (kernel = "reduce" /\ n = 0) =>
        /\ \A i \in 0 .. (MaxN - 1) : visits[i] = 0
        /\ combines = {}
        /\ \A d \in Blocks : writers[d] = {} /\ destination[d] = Uninit
        /\ host = "combined" => result = Identity(fn)

C8_Witness ==
    /\ kernel = "reduce" /\ n = 0 /\ host = "combined"
    /\ gridDimension >= 2 /\ blockThreadExtent >= 2

\* C9 as stated: the wrapped function is invoked exactly once per launch,
\* whatever the number of blocks, lanes and elements.
C9_OncePerLaunch ==
    (kernel = "map" /\ LaunchComplete) => SumCalls(mapCalls, Lanes) = 1

\* C9 as amended: the wrapped function is invoked exactly once by every lane
\* of the launch, that is gridDimension * blockThreadExtent times per launch,
\* whatever the number of elements.
C9_OncePerLane ==
    kernel = "map" =>
        /\ \A l \in Lanes : mapCalls[l] = (IF pc[l] = "done" THEN 1 ELSE 0)
        /\ LaunchComplete =>
              SumCalls(mapCalls, Lanes) = gridDimension * blockThreadExtent

C9_Witness ==
    /\ kernel = "map" /\ host = "combined"
    /\ gridDimension * blockThreadExtent >= 4 /\ n >= 2

\* C10: blocks are independent: the lanes that write one destination slot all
\* belong to one block, so no slot depends on the order of the blocks.
C10_BlocksIndependent ==
    \A d \in Blocks : \A l1, l2 \in writers[d] : blockIndex(l1) = blockIndex(l2)

\* ---- the tree fold and the walk of one lane ------------------------------

\* every lane of block b has left the tree-fold loop
PastLastBarrier(b) ==
    \A t \in Threads :
        \/ pc[<<b, t>>] = "done"
        \/ pc[<<b, t>>] = "round" /\ ~(currentBlockSize[<<b, t>>] > 1)

\* the fold of f over the elements at pos, pos + stride, ... below n, onto acc
RECURSIVE AccFrom(_, _, _)
AccFrom(acc, pos, stride) ==
    IF pos >= n THEN acc
    ELSE AccFrom(Combine(fn, acc, source[pos]), pos + stride, stride)

\* the private accumulator of lane l: seeded with its first element
LaneAcc(l) ==
    AccFrom(source[linearizedIndex(l)],
            linearizedIndex(l) + gridDimension * TBlockSize,
            gridDimension * TBlockSize)

\* the lanes of block b whose global index b * B + t is below n
ValidLanes(b) == {t \in Threads : b * TBlockSize + t < n}

\* the accumulators of the lanes 0..k-1 of block b that are valid, combined
RECURSIVE CombineAccs(_, _)
CombineAccs(b, k) ==
    IF k = 0 THEN Identity(fn)
    ELSE IF (k - 1) \in ValidLanes(b)
         THEN IF \E t \in ValidLanes(b) : t < k - 1
              THEN Combine(fn, CombineAccs(b, k - 1), LaneAcc(<<b, k - 1>>))
              ELSE LaneAcc(<<b, k - 1>>)
         ELSE CombineAccs(b, k - 1)

\* C11: after the last round of the tree fold sdata[0] of a block is the
\* combination of the accumulators of exactly the valid lanes of the block,
\* each taken once, for every count of valid lanes from 1 to B.
C11_BlockResult ==
    \A b \in Blocks :
        (kernel = "reduce" /\ PastLastBarrier(b) /\ ValidLanes(b) # {}) =>
            sdata[b][0] = CombineAccs(b, blockThreadExtent)

\* the lane has left the tree-fold loop
PastLoop(l) ==
    \/ pc[l] = "done"
    \/ pc[l] = "round" /\ ~(currentBlockSize[l] > 1)

\* ceil(log2(b)): the least k with 2^k >= b
RECURSIVE CeilLog2(_)
CeilLog2(b) == IF b <= 1 THEN 0 ELSE 1 + CeilLog2((b + 1) \div 2)

AfterFirstBarrier(b) == \A t \in Threads : pc[<<b, t>>] = "print"

\* C13: before the first barrier a lane writes its own slot sdata[t] and no
\* other, so after the first barrier slot t holds the fold of the elements
\* the lane with local index t visited.
C13_OwnSlotBeforeFirstBarrier ==
    \A b \in Blocks :
        /\ (kernel = "reduce" /\ \E t \in Threads : pc[<<b, t>>] \in {"walk", "sync0"})
              => \A i \in Slots : wr[b][i] \subseteq {i}
        /\ (kernel = "reduce" /\ AfterFirstBarrier(b))
              => \A t \in Threads :
                    walk[<<b, t>>] # << >> => sdata[b][t] = LaneAcc(<<b, t>>)

RECURSIVE LoopRounds(_)
LoopRounds(cbs) == IF cbs > 1 THEN 1 + LoopRounds(NextBlockSize(cbs)) ELSE 0

\* C15: every lane crosses the same barriers, one after the accumulation
\* phase and one after each round, whatever its index, n and its fold guard;
\* no lane leaves the kernel before the last of them, and with lanes that
\* keep running every lane of the launch terminates.
C15_BarriersAndTermination ==
    /\ [](kernel = "reduce" =>
            \A l \in Lanes :
               /\ barriers[l] =
                     (IF pc[l] \in {"walk", "sync0"} THEN 0
                      ELSE IF pc[l] = "syncR" THEN Len(spans[l])
                      ELSE 1 + Len(spans[l]))
               /\ pc[l] = "done" => barriers[l] = 1 + LoopRounds(TBlockSize))
    /\ <>(kernel = "reduce" => LaunchComplete)

\* a finished launch with a lane that visited no element beside one that did
C15_Witness ==
    /\ kernel = "reduce" /\ LaunchComplete /\ TBlockSize >= 2
    /\ \E l1, l2 \in Lanes :
          /\ l1[1] = l2[1]
          /\ walk[l1] = << >> /\ walk[l2] # << >>
          /\ barriers[l1] >= 2 /\ barriers[l2] >= 2

\* C16: the destination slot of a block is written only after every lane of
\* the block has crossed the last barrier of the kernel; the value written is
\* the one sdata[0] has then; after that barrier no lane of the block invokes
\* func or writes a shared slot.
C16_StoreAfterLastBarrier ==
    /\ [](\A d \in Blocks : \A l \in writers[d] :
             /\ PastLastBarrier(l[1])
             /\ \A t \in Threads :
                   barriers[<<l[1], t>>] = 1 + LoopRounds(TBlockSize))
    /\ [][/\ \A l \in Lanes : \A d \in Blocks :
               (l \in writers'[d] /\ l \notin writers[d]) =>
                  /\ PastLastBarrier(l[1])
                  /\ IF sdata[l[1]][0] = Uninit
                     THEN destination'[d] \in Garbage
                     ELSE destination'[d] = sdata[l[1]][0]
          /\ \A b \in Blocks :
               (kernel = "reduce" /\ PastLastBarrier(b)) =>
                  /\ sdata'[b] = sdata[b]
                  /\ wr'[b] = wr[b]
                  /\ \A t \in Threads : walk'[<<b, t>>] = walk[<<b, t>>]
       ]_vars

\* a block of several lanes that ran a round has stored its result
C16_Witness ==
    /\ kernel = "reduce" /\ LaunchComplete
    /\ blockThreadExtent >= 2
    /\ \E d \in Blocks : \E l \in writers[d] :
          /\ sdata[l[1]][0] # Uninit
          /\ destination[d] = sdata[l[1]][0]
          /\ \E t \in Threads : <<l[1], t, 1>> \in combines

\* C17: a lane with global linear index i and stride L > 0 passes to func
\* exactly the indices i, i + L, i + 2L, ... below n, once each and in
\* increasing order; its walk ends at the first such index >= n, after at
\* most n steps, and a lane with i >= n passes nothing.
C17_LaneWalk ==
    kernel = "reduce" =>
        \A l \in Lanes :
            LET i == l[1] * blockThreadExtent + l[2]
                L == gridDimension * TBlockSize
            IN  /\ L > 0
                /\ \A k \in 1 .. Len(walk[l]) :
                      walk[l][k] = i + (k - 1) * L /\ walk[l][k] < n
                /\ it[l] = i + Len(walk[l]) * L
                /\ Len(walk[l]) <= n
                /\ pc[l] # "walk" =>
                      /\ it[l] >= n
                      /\ Len(walk[l]) > 0 => it[l] - L < n
                /\ i >= n => walk[l] = << >>

\* a lane that made more than one step has finished its walk
C17_Witness ==
    /\ kernel = "reduce"
    /\ \E l \in Lanes : Len(walk[l]) >= 2 /\ pc[l] = "done"

====
